---- MODULE Spec2Model ----
(***************************************************************************)
(* folly/detail/ThreadLocalDetail.cpp: StaticMetaBase, the registry of     *)
(* thread-local ids (nextId_, freeIds_), the list of live ThreadEntry      *)
(* tables (head_), and the operations allocate, destroy, reserve, get and  *)
(* onThreadExit, run by NumThreads threads. A critical section of lock_ is *)
(* one step; the code between two critical sections is a step of its own   *)
(* wherever it reads or writes memory that another thread may write.       *)
(***************************************************************************)
EXTENDS Integers, Naturals, Sequences, FiniteSets, TLC

\* ---------------------------------------------------------------- bounds
NumThreads == 2
\* handles that the threads use freely
NumHandles == 2
\* values one thread may store under one handle
MaxStores == 1
\* jemalloc hands out blocks of a multiple of this many slots
SizeClass == 2
\* the count of an exit's rounds stops here (no exit gets that far)
MaxRounds == 5

\* ------------------------------------------------------------- constants
\* uint32_t's max value in the source; TLC integers are 32-bit signed, so the
\* model uses the largest one: all that the code relies on is that it is
\* greater than every capacity and every id issued.
kEntryIDInvalid == 2147483647
\* in-place expansion is tried from this many slots on (Malloc.h gives the
\* threshold in bytes; here it is in slots, and any non-empty block passes)
jemallocMinInPlaceExpandable == 1
\* the registry of InitAged has issued ids 1..AgedNextId-1 before
AgedNextId == 10

Threads == 1..NumThreads
\* One more handle is declared: only the threads of SpecReuse use it.
Handles == 1..(NumHandles + 1)
Declared == 1..NumHandles
NoThread == 0

VARIABLES
  nextId_,      \* StaticMetaBase::nextId_
  freeIds_,     \* StaticMetaBase::freeIds_ (vector, back() is the last)
  lock_,        \* StaticMetaBase::lock_: the holder, or NoThread
  head_,        \* the list of ThreadEntry linked at head_, in list order
  value,        \* EntryID::value of every handle
  elementsCapacity,  \* ThreadEntry::elementsCapacity of every thread
  elements,     \* ThreadEntry::elements: the block, indexed 0..size-1
  meta,         \* ThreadEntry::meta is non-null
  jemalloc,     \* usingJEMalloc(), fixed for the life of the process
  stack,        \* the call stack of every thread, innermost frame last
  heldElsewhere,\* ids held by handles that the threads here never touch
  destroying,   \* handles on which destroy has been called
  stored,       \* how many values a thread has stored under a handle
  staleRead,    \* get has handed out a slot with another handle's value:
                \* the kinds of table ("live", "delisted") it did so from
  rounds,       \* per thread: the rounds its onThreadExit has started
  leaked,       \* values that were in a table when its block was freed
  disposedAll,  \* per value: calls of its disposer with ALL_THREADS
  disposedThis, \* per value: calls of its disposer with THIS_THREAD
  captured,     \* values a destroy copied out of a table
  swept         \* per handle: what the destroy that swept for it saw and did

vars == <<nextId_, freeIds_, lock_, head_, value, elementsCapacity, elements,
          meta, jemalloc, stack, heldElsewhere, destroying, stored, staleRead,
          rounds, leaked, disposedAll, disposedThis, captured, swept>>

registry == <<nextId_, freeIds_, heldElsewhere, jemalloc>>
ghosts == <<rounds, leaked, disposedAll, disposedThis, captured, swept>>

\* -------------------------------------------------------------- values
\* The k-th value that thread t stores under handle h.
NumValues == NumThreads * Cardinality(Handles) * MaxStores
Values == 1..NumValues
ValOf(t, h, k) == ((t - 1) * Cardinality(Handles) + (h - 1)) * MaxStores + k
HandleOf(v) == (((v - 1) \div MaxStores) % Cardinality(Handles)) + 1
ThreadOf(v) == ((v - 1) \div (Cardinality(Handles) * MaxStores)) + 1

\* ElementWrapper: ptr, deleter1, ownsDeleter; all zero when empty.
EmptyWrapper == [ptr |-> 0, deleter1 |-> 0, ownsDeleter |-> FALSE]
\* ElementWrapper::set(p): the slot takes the value and the handle's deleter.
SetWrapper(v) == [ptr |-> v, deleter1 |-> HandleOf(v), ownsDeleter |-> FALSE]
\* calloc / MALLOCX_ZERO: a block of n zeroed wrappers.
ZeroBlock(n) == [i \in 0..(n - 1) |-> EmptyWrapper]
BlockSize(b) == Cardinality(DOMAIN b)
Occupied(t, i) == i \in DOMAIN elements[t] /\ elements[t][i].ptr # 0

\* --------------------------------------------------------------- frames
Frame(op, pc, h) ==
  [op |-> op, pc |-> pc, h |-> h, id |-> 0, prevCapacity |-> 0,
   newCapacity |-> 0, reallocated |-> FALSE, viaAllocate |-> FALSE,
   i |-> 0, shouldRun |-> FALSE, elems |-> <<>>]
Depth(t) == Len(stack[t])
Top(t) == stack[t][Depth(t)]
At(t, op, pc) == Depth(t) > 0 /\ Top(t).op = op /\ Top(t).pc = pc
SetTop(t, f) == [stack EXCEPT ![t] = [@ EXCEPT ![Len(@)] = f]]
Push(t, f) == [stack EXCEPT ![t] = Append(@, f)]
PopSeq(s) == SubSeq(s, 1, Len(s) - 1)
SeqRange(s) == {s[k] : k \in 1..Len(s)}
\* The callee returns: its frame goes, and a disposer that called it goes on.
Returned(s) ==
  LET r == PopSeq(s) IN
  IF Len(r) > 0 /\ r[Len(r)].op = "dispose"
  THEN [r EXCEPT ![Len(r)].pc = "ran"]
  ELSE r
Return(t) == [stack EXCEPT ![t] = Returned(@)]

\* A get of handle h is in progress on some thread.
Accessing(h) ==
  \E t \in Threads : \E k \in 1..Depth(t) :
     stack[t][k].op = "get" /\ stack[t][k].h = h
\* The thread has entered onThreadExit (its outermost frame), or has left it.
Exiting(t) == Depth(t) > 0 /\ stack[t][1].op = "exit"
Exited(t) == elementsCapacity[t] > 0 /\ ~meta[t]
\* Handles are interchangeable until first used: they are used in order.
Touched(h) == value[h] # kEntryIDInvalid \/ destroying[h] \/ Accessing(h)
InOrder(h) == \A g \in Handles : g < h => Touched(g)
\* The caller contract of get: the handle is not destructing.
MayAccess(h) == ~destroying[h] /\ InOrder(h)

\* The record of the destroy that found a valid id in handle h: the id, the
\* threads whose tables were linked then, the values that the tables, linked
\* or not, held at that id, and how that destroy ended: "no" (not yet),
\* "returned" (its loop ran to the end) or "caught" (line 115).
NotSwept == [id |-> 0, live |-> {}, present |-> {}, done |-> "no"]
Bump(n) == IF n < 2 THEN n + 1 ELSE n

\* ----------------------------------------------------------------- Init
InitCommon ==
  /\ lock_ = NoThread
  /\ head_ = <<>>
  /\ value = [h \in Handles |-> kEntryIDInvalid]
  /\ elementsCapacity = [t \in Threads |-> 0]
  /\ elements = [t \in Threads |-> ZeroBlock(0)]
  /\ meta = [t \in Threads |-> TRUE]
  /\ jemalloc \in BOOLEAN
  /\ stack = [t \in Threads |-> <<>>]
  /\ destroying = [h \in Handles |-> FALSE]
  /\ stored = [t \in Threads |-> [h \in Handles |-> 0]]
  /\ staleRead = {}
  /\ rounds = [t \in Threads |-> 0]
  /\ leaked = {}
  /\ disposedAll = [v \in Values |-> 0]
  /\ disposedThis = [v \in Values |-> 0]
  /\ captured = {}
  /\ swept = [h \in Handles |-> NotSwept]

\* The registry as its constructor leaves it.
InitFresh ==
  /\ nextId_ = 1
  /\ freeIds_ = <<>>
  /\ heldElsewhere = {}
  /\ InitCommon

\* The registry after AgedNextId-1 handles outside Handles were allocated
\* and the first of them was destroyed: the ids of Handles then span more
\* than the capacity of a first growth, so a table grows a second time.
InitAged ==
  /\ nextId_ = AgedNextId
  /\ freeIds_ = <<1>>
  /\ heldElsewhere = 2..(AgedNextId - 1)
  /\ InitCommon

Init == InitFresh \/ InitAged

\* ------------------------------------------------------------- allocate
\* (mutant: allocate does not look at the handle again under the lock)
AlreadyAllocated_Never(id) == FALSE
\* allocate, line 61: the handle already carries an id.
AlreadyAllocated(id) == id # kEntryIDInvalid
\* (mutant: allocate always takes nextId_)
TakenId_Next == nextId_
\* allocate, lines 65-70: the id taken, and what is left of the pool.
TakenId == IF freeIds_ # <<>> THEN freeIds_[Len(freeIds_)] ELSE nextId_
\* (mutant: the pop_back of line 67 is missing)
FreeIdsAfterTake_NoPop == freeIds_
FreeIdsAfterTake ==
  IF freeIds_ # <<>> THEN SubSeq(freeIds_, 1, Len(freeIds_) - 1) ELSE freeIds_
NextIdAfterTake == IF freeIds_ # <<>> THEN nextId_ ELSE nextId_ + 1

\* (mutant: the test of line 130 is off by one)
Covers_OrEqual(capacity, idval) == capacity >= idval
\* reserve, line 130: the table already covers the id.
Covers(capacity, idval) == capacity > idval
\* (mutant: a growth factor below 1)
GrowthCapacity_Slow(idval) == ((idval + 5) * 7) \div 10
\* reserve, line 135: static_cast<size_t>((idval + 5) * 1.7).
GrowthCapacity(idval) == ((idval + 5) * 17) \div 10
\* reserve, lines 145 and 169: with jemalloc the capacity becomes the real
\* size of the block, nallocx's, the request rounded up to a size class.
RealCapacity(n) ==
  IF jemalloc THEN ((n + SizeClass - 1) \div SizeClass) * SizeClass ELSE n
\* reserve, line 153: the block is large enough to be expanded in place.
InPlaceExpandable(prevCapacity) == prevCapacity >= jemallocMinInPlaceExpandable
\* (mutant: the memcpy reads the block as it was before any destroy cleared
\* a slot of it, as a copy made outside the lock could)
CopySource_Stale(t) ==
  [i \in DOMAIN elements[t] |->
     LET back == {v \in captured : ThreadOf(v) = t /\ swept[HandleOf(v)].id = i}
     IN IF elements[t][i].ptr = 0 /\ back # {}
        THEN SetWrapper(CHOOSE v \in back : TRUE)
        ELSE elements[t][i]]
\* reserve, line 202: threadEntry->elements, read under the lock of line 186.
CopySource(t) == elements[t]
\* (mutant: the memcpy of lines 200-203 is missing)
CopyInto_Nothing(old, n, prevCapacity) == [i \in 0..(n - 1) |-> EmptyWrapper]
\* reserve, lines 199-205: the fresh zeroed block after the memcpy of the
\* first prevCapacity wrappers of the old one.
CopyInto(old, n, prevCapacity) ==
  [i \in 0..(n - 1) |-> IF i < prevCapacity THEN old[i] ELSE EmptyWrapper]
\* xallocx with MALLOCX_ZERO: the same block, longer, the new part zeroed.
Extended(old, n) ==
  [i \in 0..(n - 1) |-> IF i \in DOMAIN old THEN old[i] ELSE EmptyWrapper]

\* ------------------------------------------------------------------ get
\* A thread calls get from its own code, or from a deleter that is running
\* (the NOTE of lines 38-41: a deleter may use a thread local of the same
\* registry; here it does so once).
MayCall(t) ==
  \/ Depth(t) = 0 /\ ~Exited(t)
  \/ At(t, "dispose", "run")
\* The stack of the caller once a call made at MayCall has returned.
Called(t) ==
  IF Depth(t) = 0 THEN stack ELSE SetTop(t, [Top(t) EXCEPT !.pc = "ran"])

\* The slot that get hands out holds a value that was stored under another
\* handle.
Stale(t, id, h) ==
  /\ id \in DOMAIN elements[t]
  /\ elements[t][id].ptr # 0
  /\ HandleOf(elements[t][id].ptr) # h

\* What the caller of get does with the slot: it reads it ...
ReadSlot(t, id, h) ==
  /\ staleRead' = IF Stale(t, id, h)
                  THEN staleRead \cup {IF t \in SeqRange(head_) THEN "live"
                                                                ELSE "delisted"}
                  ELSE staleRead
  /\ UNCHANGED <<elements, stored>>
\* ... or, the slot being empty, sets it to a new value (ElementWrapper::set).
StoreSlot(t, id, h) ==
  /\ id \in DOMAIN elements[t]
  /\ elements[t][id].ptr = 0
  /\ stored[t][h] < MaxStores
  /\ elements' = [elements EXCEPT
                    ![t][id] = SetWrapper(ValOf(t, h, stored[t][h] + 1))]
  /\ stored' = [stored EXCEPT ![t][h] = @ + 1]
  /\ UNCHANGED staleRead

\* get, lines 214-218 and 223: the capacity covers the id, no reserve.
GetFast(t, h) ==
  /\ MayCall(t)
  /\ MayAccess(h)
  /\ elementsCapacity[t] > value[h]
  /\ \/ ReadSlot(t, value[h], h)
     \/ StoreSlot(t, value[h], h)
  /\ stack' = Called(t)
  /\ UNCHANGED <<registry, lock_, head_, value, elementsCapacity, meta,
                 destroying, ghosts>>

\* Where reserve goes once it knows idval (lines 130-136).
AfterIdval(f, idval) ==
  IF Covers(f.prevCapacity, idval)
  THEN [f EXCEPT !.pc = "retry", !.id = idval]
  ELSE [f EXCEPT !.pc = "grow", !.id = idval,
                 !.newCapacity = GrowthCapacity(idval)]

\* get, lines 214-219, and reserve, lines 126-129, up to getOrAllocate's
\* load of the id: the capacity does not cover the id, or there is no id.
GetSlow(t, h) ==
  /\ MayCall(t)
  /\ MayAccess(h)
  /\ elementsCapacity[t] <= value[h]
  /\ LET f == [Frame("get", "allocate", h)
                 EXCEPT !.prevCapacity = elementsCapacity[t]]
     IN stack' = Push(t, IF value[h] # kEntryIDInvalid
                         THEN AfterIdval(f, value[h])
                         ELSE f)
  /\ UNCHANGED <<registry, lock_, head_, value, elementsCapacity, elements,
                 meta, destroying, stored, staleRead, ghosts>>

\* allocate, lines 58-75, called by getOrAllocate: one critical section.
Allocate(t) ==
  /\ At(t, "get", "allocate")
  /\ lock_ = NoThread
  /\ LET f == [Top(t) EXCEPT !.viaAllocate = TRUE]
         id == value[f.h]
     IN IF AlreadyAllocated(id)
        THEN /\ stack' = SetTop(t, AfterIdval(f, id))
             /\ UNCHANGED <<registry, value>>
        ELSE /\ value' = [value EXCEPT ![f.h] = TakenId]
             /\ freeIds_' = FreeIdsAfterTake
             /\ nextId_' = NextIdAfterTake
             /\ stack' = SetTop(t, AfterIdval(f, TakenId))
             /\ UNCHANGED <<heldElsewhere, jemalloc>>
  /\ lock_' = NoThread
  /\ UNCHANGED <<head_, elementsCapacity, elements, meta, destroying, stored,
                 staleRead, ghosts>>

\* (mutant: reserve links the entry at every growth)
ListAfterPush_Always(t, prevCapacity) == Append(head_, t)
\* meta.push_back(threadEntry), lines 188-190.
ListAfterPush(t, prevCapacity) ==
  IF prevCapacity = 0 THEN Append(head_, t) ELSE head_

\* reserve, lines 137-211, with a fresh zeroed block (mallocx or calloc):
\* under the lock the entry is linked, the old wrappers are copied, the
\* blocks are swapped and the capacity is set; the old block is freed.
InstallFresh(t) ==
  /\ At(t, "get", "grow")
  /\ lock_ = NoThread
  /\ LET f == Top(t)
         n == RealCapacity(f.newCapacity)
     IN /\ head_' = ListAfterPush(t, f.prevCapacity)
        /\ elements' = [elements EXCEPT
                          ![t] = CopyInto(CopySource(t), n, f.prevCapacity)]
        /\ elementsCapacity' = [elementsCapacity EXCEPT ![t] = n]
        /\ stack' = SetTop(t, [f EXCEPT !.pc = "retry", !.newCapacity = n,
                                        !.reallocated = TRUE])
  /\ lock_' = NoThread
  /\ UNCHANGED <<registry, value, meta, destroying, stored, staleRead, ghosts>>

\* reserve, lines 143-157 and 184-211, when xallocx grows the block where it
\* is: reallocated stays null, nothing is copied, and under the lock the
\* capacity is set.
InstallInPlace(t) ==
  /\ At(t, "get", "grow")
  /\ jemalloc
  /\ InPlaceExpandable(Top(t).prevCapacity)
  /\ lock_ = NoThread
  /\ LET f == Top(t)
         n == RealCapacity(f.newCapacity)
     IN /\ head_' = ListAfterPush(t, f.prevCapacity)
        /\ elements' = [elements EXCEPT ![t] = Extended(@, n)]
        /\ elementsCapacity' = [elementsCapacity EXCEPT ![t] = n]
        /\ stack' = SetTop(t, [f EXCEPT !.pc = "retry", !.newCapacity = n,
                                        !.reallocated = FALSE])
  /\ lock_' = NoThread
  /\ UNCHANGED <<registry, value, meta, destroying, stored, staleRead, ghosts>>

\* std::bad_alloc leaves get: its frame goes, and a deleter that called it
\* has the exception in hand.
Thrown(s) ==
  LET r == PopSeq(s) IN
  IF Len(r) > 0 /\ r[Len(r)].op = "dispose"
  THEN [r EXCEPT ![Len(r)].pc = "bad_alloc"]
  ELSE r
\* (mutant: the allocation is made, and fails, after the critical section)
FailPoint_AfterInstall == "retry"
\* reserve, lines 143-182: the allocation is made, and fails, after line 136
\* and before the critical section of line 186.
FailPoint == "grow"
\* reserve, lines 171 and 180: no memory, std::bad_alloc leaves reserve and
\* get.
GrowFail(t) ==
  /\ At(t, "get", FailPoint)
  /\ stack' = [stack EXCEPT ![t] = Thrown(@)]
  /\ UNCHANGED <<registry, lock_, head_, value, elementsCapacity, elements,
                 meta, destroying, stored, staleRead, ghosts>>

\* get, lines 220-223, after reserve: the id is read again, and the caller
\* uses the slot.
GetRetry(t) ==
  /\ At(t, "get", "retry")
  /\ \/ ReadSlot(t, value[Top(t).h], Top(t).h)
     \/ StoreSlot(t, value[Top(t).h], Top(t).h)
  /\ stack' = Return(t)
  /\ UNCHANGED <<registry, lock_, head_, value, elementsCapacity, meta,
                 destroying, ghosts>>

\* -------------------------------------------------------------- destroy
\* destroy, line 90: the entry holds an element for the id.
Holds(e, id) == id < elementsCapacity[e] /\ elements[e][id].ptr # 0
\* destroy, lines 89-108: the entries of the list that hold one, in order.
Holders(id) == SelectSeq(head_, LAMBDA e : Holds(e, id))
\* (mutant: line 104 is missing, the pointer stays)
ClearedWrapper_KeepPtr(w) == [w EXCEPT !.deleter1 = 0, !.ownsDeleter = FALSE]
\* destroy, lines 104-106.
ClearedWrapper(w) ==
  [w EXCEPT !.ptr = 0, !.deleter1 = 0, !.ownsDeleter = FALSE]
\* (mutant: the push_back of line 109 is missing)
FreeIdsAfterDestroy_Lost(id) == freeIds_
\* destroy, line 109.
FreeIdsAfterDestroy(id) == Append(freeIds_, id)

\* (mutant: the test of line 85 is missing)
NothingToDestroy_Never(id) == FALSE
\* destroy, line 85: the handle had no id.
NothingToDestroy(id) == id = kEntryIDInvalid
\* (mutant: the lock_guard of line 83 lives to the end of destroy)
LockAfterSweep_Held(t) == t
\* destroy, line 110: the scope of the lock_guard of line 83 ends.
LockAfterSweep(t) == NoThread

\* destroy(ent), lines 79-110 (by the caller contract no get of the handle
\* is running, and none starts afterwards): the critical section with the
\* exchange, the scan of the list and the push of the id.
\* A deleter that called a destroy which returned at line 86 is at "noop".
DestroyCall(t, h) ==
  /\ InOrder(h)
  /\ ~Accessing(h)
  /\ lock_ = NoThread
  /\ destroying' = [destroying EXCEPT ![h] = TRUE]
  /\ LET id == value[h]
         hs == Holders(id)
     IN IF NothingToDestroy(id)
        THEN /\ stack' = IF Depth(t) = 0 THEN stack
                          ELSE SetTop(t, [Top(t) EXCEPT !.pc = "noop"])
             /\ lock_' = NoThread
             /\ UNCHANGED <<freeIds_, value, elements, captured, swept>>
        ELSE /\ lock_' = LockAfterSweep(t) /\ value' = [value EXCEPT ![h] = kEntryIDInvalid]
             /\ elements' =
                  [e \in Threads |->
                     IF e \in SeqRange(hs)
                     THEN [elements[e] EXCEPT ![id] = ClearedWrapper(@)]
                     ELSE elements[e]]
             /\ freeIds_' = FreeIdsAfterDestroy(id)
             /\ stack' = Push(t,
                  [Frame("destroy", "dispose", h) EXCEPT !.id = id, !.i = 1,
                     !.elems = [k \in 1..Len(hs) |-> elements[hs[k]][id]]])
             /\ captured' = captured \cup {elements[e][id].ptr : e \in SeqRange(hs)}
             /\ swept' = [swept EXCEPT ![h] =
                            [id |-> id, live |-> SeqRange(head_),
                             present |-> {elements[e][id].ptr :
                                            e \in {u \in Threads : Occupied(u, id)}},
                             done |-> "no"]]
  /\ UNCHANGED <<nextId_, heldElsewhere, jemalloc, head_, elementsCapacity,
                 meta, stored, staleRead, rounds, leaked, disposedAll, disposedThis>>

\* A thread calls destroy from its own code.
DestroySweep(t, h) ==
  /\ Depth(t) = 0
  /\ ~Exited(t)
  /\ DestroyCall(t, h)

\* A deleter that is running calls destroy (the disposers of a sweep "may
\* re-enter the registry"; as with get, a deleter does so once).
DestroyNested(t, h) ==
  /\ At(t, "dispose", "run")
  /\ DestroyCall(t, h)

\* destroy, lines 112-113: the next captured element is disposed with
\* ALL_THREADS, on the copy in the vector.
DestroyDispose(t) ==
  /\ At(t, "destroy", "dispose")
  /\ LET f == Top(t) IN
     /\ f.i <= Len(f.elems)
     /\ disposedAll' = [disposedAll EXCEPT ![f.elems[f.i].ptr] = Bump(@)]
     /\ stack' = [stack EXCEPT ![t] =
                    Append([@ EXCEPT ![Len(@)].i = f.i + 1],
                           [Frame("dispose", "run", HandleOf(f.elems[f.i].ptr))
                              EXCEPT !.id = f.elems[f.i].ptr])]
  /\ UNCHANGED <<registry, lock_, head_, value, elementsCapacity, elements,
                 meta, destroying, stored, staleRead, rounds, leaked, disposedThis, captured,
                 swept>>

\* destroy, lines 112-118: the loop is over and destroy returns.
DestroyReturn(t) ==
  /\ At(t, "destroy", "dispose")
  /\ Top(t).i > Len(Top(t).elems)
  /\ swept' = [swept EXCEPT ![Top(t).h].done = "returned"]
  /\ stack' = Return(t)
  /\ UNCHANGED <<registry, lock_, head_, value, elementsCapacity, elements,
                 meta, destroying, stored, staleRead, rounds, leaked, disposedAll,
                 disposedThis, captured>>

\* ------------------------------------------------------------- disposers
\* The deleter returns to the dispose that called it.
DisposerReturn(t) ==
  /\ Depth(t) > 0
  /\ Top(t).op = "dispose"
  /\ stack' = [stack EXCEPT ![t] = PopSeq(@)]
  /\ UNCHANGED <<registry, lock_, head_, value, elementsCapacity, elements,
                 meta, destroying, stored, staleRead, ghosts>>

\* The deleter throws. In destroy the catch of line 115 takes it and destroy
\* returns; onThreadExit has no handler and the exception leaves it.
DisposerThrow(t) ==
  /\ Depth(t) > 1
  /\ Top(t).op = "dispose"
  /\ LET caller == stack[t][Depth(t) - 1] IN
     IF caller.op = "destroy"
     THEN /\ stack' = [stack EXCEPT ![t] = Returned(PopSeq(@))]
          /\ swept' = [swept EXCEPT ![caller.h].done = "caught"]
     ELSE /\ stack' = [stack EXCEPT ![t] =
                         [PopSeq(@) EXCEPT ![Len(@) - 1].pc = "uncaught"]]
          /\ UNCHANGED swept
  /\ UNCHANGED <<registry, lock_, head_, value, elementsCapacity, elements,
                 meta, destroying, stored, staleRead, rounds, leaked, disposedAll,
                 disposedThis, captured>>

\* --------------------------------------------------------- onThreadExit
\* (mutant: onThreadExit leaves the entry in the list)
ListAfterErase_Keep(t) == head_
\* meta.erase(threadEntry), line 34.
ListAfterErase(t) == SelectSeq(head_, LAMBDA e : e # t)

\* The thread ends and pthread calls onThreadExit with its entry, once
\* (line 30: the entry has a capacity); lines 29-37 and 42-43: the critical
\* section that unlinks the entry, and the start of the first round.
ExitErase(t) ==
  /\ Depth(t) = 0
  /\ meta[t]
  /\ elementsCapacity[t] > 0
  /\ lock_ = NoThread
  /\ head_' = ListAfterErase(t)
  /\ lock_' = NoThread
  /\ stack' = Push(t, [Frame("exit", "round", 0) EXCEPT !.i = 0,
                                                       !.shouldRun = FALSE])
  /\ rounds' = [rounds EXCEPT ![t] = 1]
  /\ UNCHANGED <<registry, value, elementsCapacity, elements, meta,
                 destroying, stored, staleRead, leaked, disposedAll,
                 disposedThis, captured, swept>>

\* ElementWrapper::dispose on an occupied wrapper: the wrapper it leaves
\* behind when it calls the deleter.
Disposed(w) == EmptyWrapper

\* The occupied indices that the round has still to visit (line 44: the
\* capacity is read again at every iteration).
Ahead(t, i) == {j \in i..(elementsCapacity[t] - 1) : elements[t][j].ptr # 0}
Least(S) == CHOOSE j \in S : \A k \in S : j <= k

\* onThreadExit, lines 44-47: the round skips the empty slots and disposes
\* the next occupied one with THIS_THREAD.
ExitDispose(t) ==
  /\ At(t, "exit", "round")
  /\ Ahead(t, Top(t).i) # {}
  /\ LET j == Least(Ahead(t, Top(t).i))
         v == elements[t][j].ptr
     IN /\ elements' = [elements EXCEPT ![t][j] = Disposed(@)]
        /\ disposedThis' = [disposedThis EXCEPT ![v] = Bump(@)]
        /\ stack' = [stack EXCEPT ![t] =
                       Append([@ EXCEPT ![Len(@)].i = j + 1,
                                        ![Len(@)].shouldRun = TRUE],
                              [Frame("dispose", "run", HandleOf(v))
                                 EXCEPT !.id = v])]
  /\ UNCHANGED <<registry, lock_, head_, value, elementsCapacity, meta,
                 destroying, stored, staleRead, rounds, leaked, disposedAll, captured,
                 swept>>

\* (mutant: a single round)
RunAgain_Never(shouldRun) == FALSE
\* onThreadExit, line 42: another round is needed.
RunAgain(shouldRun) == shouldRun

\* The values still in the table of thread t.
InTable(t) == {elements[t][j].ptr : j \in DOMAIN elements[t]} \ {0}

\* onThreadExit, lines 42-53: the round is over; another one starts if this
\* one disposed something, else the block is freed and the entry cleared.
ExitRoundEnd(t) ==
  /\ At(t, "exit", "round")
  /\ Ahead(t, Top(t).i) = {}
  /\ IF RunAgain(Top(t).shouldRun)
     THEN /\ stack' = SetTop(t, [Top(t) EXCEPT !.i = 0, !.shouldRun = FALSE])
          /\ rounds' = [rounds EXCEPT
                          ![t] = IF @ < MaxRounds THEN @ + 1 ELSE @]
          /\ UNCHANGED <<elements, meta, leaked>>
     ELSE /\ leaked' = leaked \cup InTable(t)
          /\ UNCHANGED rounds
          /\ elements' = [elements EXCEPT ![t] = ZeroBlock(0)]
          /\ meta' = [meta EXCEPT ![t] = FALSE]
          /\ stack' = Return(t)
  /\ UNCHANGED <<registry, lock_, head_, value, elementsCapacity, destroying,
                 stored, staleRead, disposedAll, disposedThis, captured, swept>>

\* ------------------------------------------------------------------ Next
Next ==
  \E t \in Threads :
    \/ \E h \in Declared : GetFast(t, h)
    \/ \E h \in Declared : GetSlow(t, h)
    \/ Allocate(t)
    \/ InstallFresh(t)
    \/ InstallInPlace(t)
    \/ GrowFail(t)
    \/ GetRetry(t)
    \/ \E h \in Declared : DestroySweep(t, h)
    \/ DestroyDispose(t)
    \/ DestroyReturn(t)
    \/ DisposerReturn(t)
    \/ DisposerThrow(t)
    \/ ExitErase(t)
    \/ ExitDispose(t)
    \/ ExitRoundEnd(t)

Spec == Init /\ [][Next]_vars

\* The runs in which thread 1 uses all the handles of Handles and exits, and
\* thread 2 destroys handles, from a fresh registry without jemalloc; no
\* allocation fails and no deleter throws.
InitReuse == InitFresh /\ ~jemalloc
NextReuse ==
  \/ \E h \in Handles : GetFast(1, h)
  \/ \E h \in Handles : GetSlow(1, h)
  \/ Allocate(1)
  \/ InstallFresh(1)
  \/ GetRetry(1)
  \/ ExitErase(1)
  \/ ExitDispose(1)
  \/ ExitRoundEnd(1)
  \/ \E h \in Handles : DestroySweep(2, h)
  \/ DestroyDispose(2)
  \/ DestroyReturn(2)
  \/ \E t \in Threads : DisposerReturn(t)
SpecReuse == InitReuse /\ [][NextReuse]_vars

\* The runs from a fresh registry without jemalloc in which a deleter may
\* also call destroy.
InitNested == InitFresh /\ ~jemalloc
NextNested ==
  \E t \in Threads :
    \/ \E h \in Declared : GetFast(t, h)
    \/ \E h \in Declared : GetSlow(t, h)
    \/ Allocate(t)
    \/ InstallFresh(t)
    \/ GrowFail(t)
    \/ GetRetry(t)
    \/ \E h \in Declared : DestroySweep(t, h)
    \/ \E h \in Declared : DestroyNested(t, h)
    \/ DestroyDispose(t)
    \/ DestroyReturn(t)
    \/ DisposerReturn(t)
    \/ DisposerThrow(t)
    \/ ExitErase(t)
    \/ ExitDispose(t)
    \/ ExitRoundEnd(t)
SpecNested == InitNested /\ [][NextNested]_vars

\* The runs, from either registry without jemalloc, in which thread 1 uses
\* the handles and exits and thread 2 destroys them, no allocation fails, and
\* every call that thread 1 has begun goes on until it ends or throws.
InitLive == Init /\ ~jemalloc
NextLive ==
  \/ \E h \in Declared : GetFast(1, h)
  \/ \E h \in Declared : GetSlow(1, h)
  \/ Allocate(1)
  \/ InstallFresh(1)
  \/ GetRetry(1)
  \/ ExitErase(1)
  \/ ExitDispose(1)
  \/ ExitRoundEnd(1)
  \/ \E h \in Declared : DestroySweep(2, h)
  \/ DestroyDispose(2)
  \/ DestroyReturn(2)
  \/ \E t \in Threads : DisposerReturn(t)
  \/ \E t \in Threads : DisposerThrow(t)
Progress(t) ==
  /\ WF_vars(Allocate(t))
  /\ WF_vars(InstallFresh(t))
  /\ WF_vars(GetRetry(t))
  /\ WF_vars(ExitDispose(t))
  /\ WF_vars(ExitRoundEnd(t))
  /\ WF_vars(DisposerReturn(t))
SpecLive == InitLive /\ [][NextLive]_vars /\ Progress(1)

\* ================================================================ claims
Valid(h) == value[h] # kEntryIDInvalid
\* The get frames of thread t.
GetFrames(t) == {k \in 1..Depth(t) : stack[t][k].op = "get"}

\* C1: at every moment no two handles with a valid id hold the same id, no
\* valid id is 0, and none is an id that a handle outside the model holds or
\* that waits in freeIds_ for reuse.
C1_IdsDistinct ==
  /\ \A h, g \in Handles : (h # g /\ Valid(h) /\ Valid(g)) => value[h] # value[g]
  /\ \A h \in Handles :
       Valid(h) => /\ value[h] # 0
                   /\ value[h] \notin heldElsewhere
                   /\ value[h] \notin SeqRange(freeIds_)
                   /\ value[h] < nextId_

\* C1 witness: two handles hold ids at once, one of them an id that a
\* destroyed handle had held, next to the ids that other handles hold.
C1_Witness ==
  /\ heldElsewhere # {}
  /\ \E h, g \in Handles : h # g /\ Valid(h) /\ Valid(g)
  /\ \E h \in Handles : value[h] = 1

\* C2: while a handle is not being destroyed its id, once set, never changes;
\* every allocate on it returns that id; and a step that takes an id from
\* freeIds_ or nextId_ gives it to exactly one handle that had none.
C2_Step ==
  /\ \A h \in Handles : (Valid(h) /\ ~destroying'[h]) => value'[h] = value[h]
  /\ (nextId_' # nextId_ \/ Len(freeIds_') < Len(freeIds_)) =>
       /\ Cardinality({h \in Handles : value'[h] # value[h]}) = 1
       /\ \A h \in Handles : value'[h] # value[h] => ~Valid(h)
       /\ nextId_' - nextId_ + Len(freeIds_) - Len(freeIds_') = 1
C2_Returned ==
  \A t \in Threads : \A k \in GetFrames(t) :
     stack[t][k].pc \in {"grow", "retry"} => stack[t][k].id = value[stack[t][k].h]
C2_AllocateIdempotent == []C2_Returned /\ [][C2_Step]_vars

\* C2 witness: two threads raced into allocate on one handle, and both have
\* come back from it.
C2_Witness ==
  \E t, u \in Threads :
    /\ t # u
    /\ Depth(t) > 0 /\ Depth(u) > 0
    /\ Top(t).op = "get" /\ Top(u).op = "get"
    /\ Top(t).h = Top(u).h
    /\ Top(t).viaAllocate /\ Top(u).viaAllocate
    /\ Top(t).pc \in {"grow", "retry"} /\ Top(u).pc \in {"grow", "retry"}

\* C6: a handle that gets an id gets the last id of freeIds_ when there is
\* one, and nextId_ stays; only when freeIds_ is empty it gets nextId_, which
\* then grows by one. In a registry that starts fresh the ids issued are
\* 1, 2, ..., nextId_ - 1.
C6_Step ==
  \A h \in Handles :
    (~Valid(h) /\ value'[h] # value[h]) =>
       IF freeIds_ # <<>>
       THEN /\ value'[h] = freeIds_[Len(freeIds_)]
            /\ freeIds_' = SubSeq(freeIds_, 1, Len(freeIds_) - 1)
            /\ nextId_' = nextId_
       ELSE /\ value'[h] = nextId_
            /\ nextId_' = nextId_ + 1
            /\ freeIds_' = freeIds_
C6_FromOne ==
  heldElsewhere = {} =>
    {value[h] : h \in {g \in Handles : Valid(g)}} \cup SeqRange(freeIds_)
      = 1..(nextId_ - 1)
C6_ReuseBeforeNext == []C6_FromOne /\ [][C6_Step]_vars

\* C6 witness: in a fresh registry id 1 was issued and released by destroy,
\* and the next handle got 1, not 2.
C6_Witness ==
  /\ heldElsewhere = {}
  /\ nextId_ = 2
  /\ \E h, g \in Handles : h # g /\ swept[h].id = 1 /\ value[g] = 1

\* C7: a step that changes the capacity of a table from C1 to C2 leaves the
\* slots below C1 as they were, leaves the slots from C1 to C2 - 1 empty in a
\* block of C2 slots, and changes no other table, no handle and neither
\* nextId_ nor freeIds_.
C7_Step ==
  \A t \in Threads :
    elementsCapacity'[t] # elementsCapacity[t] =>
      /\ DOMAIN elements'[t] = 0..(elementsCapacity'[t] - 1)
      /\ \A i \in 0..(elementsCapacity[t] - 1) : elements'[t][i] = elements[t][i]
      /\ \A i \in elementsCapacity[t]..(elementsCapacity'[t] - 1) :
           elements'[t][i] = EmptyWrapper
      /\ \A u \in Threads \ {t} :
           elements'[u] = elements[u] /\ elementsCapacity'[u] = elementsCapacity[u]
      /\ nextId_' = nextId_ /\ freeIds_' = freeIds_ /\ value' = value
C7_GrowthPreserves == [][C7_Step]_vars

\* C7 witness: a table that held a value grew from a capacity above 0, and
\* the value is where it was.
C7_Witness ==
  \E t \in Threads :
    /\ At(t, "get", "retry")
    /\ Top(t).prevCapacity > 0
    /\ elementsCapacity[t] = Top(t).newCapacity
    /\ \E i \in 0..(Top(t).prevCapacity - 1) : Occupied(t, i)

\* C8: every change of a table's capacity is an increase, also after the
\* thread's exit has unlinked the table, and whenever reserve is about to
\* grow a table the new capacity it has computed is above the present one
\* (the assert of line 136).
C8_Step ==
  \A t \in Threads :
    elementsCapacity'[t] # elementsCapacity[t] =>
      elementsCapacity'[t] > elementsCapacity[t]
C8_Assert ==
  \A t \in Threads :
    At(t, "get", "grow") =>
      /\ Top(t).prevCapacity = elementsCapacity[t]
      /\ Top(t).newCapacity > Top(t).prevCapacity
C8_CapacityGrows == []C8_Assert /\ [][C8_Step]_vars

\* C8 witness: a table grew twice, its thread has exited, and the capacity is
\* still the one of the second growth.
C8_Witness ==
  \E t \in Threads : Exited(t) /\ elementsCapacity[t] > 2 * AgedNextId

\* C9 as claimed: a table is in the list if and only if its capacity is
\* above 0, the tables of exiting and exited threads included.
C9_Original ==
  \A t \in Threads : (t \in SeqRange(head_)) <=> (elementsCapacity[t] > 0)

\* C9 amended: a table is in the list if and only if its capacity is above 0
\* and its thread has not entered onThreadExit; it is there once.
C9_LiveIffRegistered ==
  /\ \A t \in Threads :
       (t \in SeqRange(head_)) <=>
          (elementsCapacity[t] > 0 /\ ~Exiting(t) /\ ~Exited(t))
  /\ Cardinality(SeqRange(head_)) = Len(head_)

\* C9 witness: one table is linked, another has a capacity and was unlinked
\* by its thread's exit, whose rounds are running.
C9_Witness ==
  \E t, u \in Threads :
    /\ t \in SeqRange(head_)
    /\ Exiting(u) /\ elementsCapacity[u] > 0 /\ u \notin SeqRange(head_)

\* C10: the capacity of a table changes only in reserve's critical section,
\* once per reserve, from the capacity that reserve found to one that is at
\* least floor((id + 5) * 1.7) and above the id, and the same step links a
\* table whose capacity was 0; whenever the lock is free the block of a table
\* has exactly as many slots as the capacity says; and where get checks it
\* after reserve (line 221), the capacity is above the handle's id.
C10_Step ==
  \A t \in Threads :
    elementsCapacity'[t] # elementsCapacity[t] =>
      /\ At(t, "get", "grow")
      /\ elementsCapacity[t] = Top(t).prevCapacity
      /\ elementsCapacity'[t] >= ((Top(t).id + 5) * 17) \div 10
      /\ elementsCapacity'[t] > Top(t).id
      /\ stack'[t][Depth(t)].pc = "retry"
      /\ (elementsCapacity[t] = 0) =>
           (t \notin SeqRange(head_) /\ t \in SeqRange(head_'))
C10_Agree ==
  \A t \in Threads :
    lock_ # t => (meta[t] => DOMAIN elements[t] = 0..(elementsCapacity[t] - 1))
C10_Assert ==
  \A t \in Threads :
    At(t, "get", "retry") =>
      (Valid(Top(t).h) /\ elementsCapacity[t] > value[Top(t).h])
C10_GrowthInOneStep == [](C10_Agree /\ C10_Assert) /\ [][C10_Step]_vars

\* C10 witness: the first access of a thread is to an id of AgedNextId or
\* more: its table went from capacity 0 to one above the id, was linked, and
\* another thread's table is linked as well.
C10_Witness ==
  \E t \in Threads :
    /\ At(t, "get", "retry")
    /\ Top(t).prevCapacity = 0
    /\ Top(t).id >= AgedNextId
    /\ elementsCapacity[t] > Top(t).id
    /\ Len(head_) = 2

\* The values that thread t has stored under handle h, and the values that
\* are in some table.
StoredVals(t, h) == {ValOf(t, h, k) : k \in 1..stored[t][h]}
InSomeTable == UNION {InTable(t) : t \in Threads}

C4_ExitDisposesAll ==
  /\ \A t \in Threads :
       Exited(t) =>
         \A h \in Handles : \A v \in StoredVals(t, h) :
            IF v \in captured
            THEN disposedThis[v] = 0
            ELSE disposedThis[v] = 1 /\ disposedAll[v] = 0
  /\ leaked = {}

\* C4 witness: an exit has completed that needed a third round, because a
\* deleter of the first round stored a value at an index the round had
\* passed; two values of the thread were disposed with THIS_THREAD.
C4_Witness ==
  \E t \in Threads :
    /\ Exited(t)
    /\ rounds[t] >= 3
    /\ Cardinality({v \in Values : ThreadOf(v) = t /\ disposedThis[v] = 1}) >= 2

\* C5 as claimed: no get ever hands out a slot that holds a value stored
\* under another handle, whatever the table and whoever the caller.
C5_Original == staleRead = {}

\* The thread is inside a deleter that a sweep has called, and the thread is
\* at a critical section of lock_ that it is about to enter.
Disposing(t) == \E k \in 1..Depth(t) : stack[t][k].op = "dispose"
AtLock(t) == At(t, "get", "allocate") \/ At(t, "get", "grow")
DestroyFrames(t) == {k \in 1..Depth(t) : stack[t][k].op = "destroy"}

\* C11: while a deleter called by destroy or by onThreadExit runs, its thread
\* does not hold lock_; and whenever a thread, inside a deleter or not, is
\* about to take lock_ in allocate or reserve, the lock is free, so that no
\* thread waits for a lock that is never released.
C11_NoDisposerUnderLock ==
  \A t \in Threads :
    /\ Disposing(t) => lock_ # t
    /\ AtLock(t) => lock_ = NoThread

\* C11 witness: a deleter called by destroy has called destroy on another
\* handle, which swept and now runs a deleter in its turn.
C11_Witness ==
  \E t \in Threads :
    /\ Cardinality(DestroyFrames(t)) >= 2
    /\ At(t, "dispose", "run")
    /\ lock_ = NoThread

\* C12, the part that holds whatever the deleters do: a step in which no
\* handle loses a valid id (a destroy that finds the
\* id invalid among them) adds nothing to freeIds_, captures no value and
\* records no sweep; a handle is swept at most once, in the step in which it
\* loses its id, and that step appends exactly that id to freeIds_; so in a
\* fresh registry every id issued is either held by one handle or once in
\* freeIds_, which never holds the invalid id; and a captured value is
\* disposed with ALL_THREADS at most once, and once when the destroy that
\* captured it has run its loop to the end.
C12_Step ==
  /\ (\A h \in Handles : Valid(h) => Valid(h)') =>
        /\ Len(freeIds_') <= Len(freeIds_)
        /\ captured' = captured
        /\ \A h \in Handles : swept'[h].id = swept[h].id
        /\ \A t \in Threads : \A i \in DOMAIN elements[t] :
             (elements[t][i].ptr # 0 /\ i \in DOMAIN elements'[t]
                /\ elements'[t][i].ptr = 0) => At(t, "exit", "round")
  /\ \A h \in Handles :
       /\ swept[h].id # 0 =>
            /\ swept'[h].id = swept[h].id
            /\ swept'[h].present = swept[h].present
            /\ ~Valid(h)'
       /\ (Valid(h) /\ ~Valid(h)') =>
            /\ freeIds_' = Append(freeIds_, value[h])
            /\ swept[h].id = 0 /\ swept'[h].id = value[h]
C12_Once ==
  /\ Len(freeIds_) + Cardinality({h \in Handles : Valid(h)}) = nextId_ - 1
  /\ Cardinality(SeqRange(freeIds_)) = Len(freeIds_)
  /\ kEntryIDInvalid \notin SeqRange(freeIds_)
  /\ \A v \in Values : disposedAll[v] <= 1
  /\ \A h \in Handles :
       swept[h].done = "returned" =>
         \A v \in swept[h].present :
            ThreadOf(v) \in swept[h].live => disposedAll[v] = 1
C12_DestroyIdempotent == []C12_Once /\ [][C12_Step]_vars

\* C12 witness: every handle was swept by a destroy, a deleter has called
\* destroy again, which found the id invalid and returned, and freeIds_
\* holds each id once.
C12_Witness ==
  /\ \A h \in Declared : swept[h].id # 0
  /\ \E t \in Threads : At(t, "dispose", "noop")
  /\ Len(freeIds_) = NumHandles
  /\ Cardinality(SeqRange(freeIds_)) = NumHandles

\* C13 as claimed: an exception that a deleter throws never leaves a sweep:
\* no onThreadExit (and no destroy) is left by an exception.
C13_Original ==
  \A t \in Threads : \A k \in 1..Depth(t) : stack[t][k].pc # "uncaught"

\* C14: where reserve's allocation can fail, the access has changed nothing
\* of the table: the capacity is the one reserve found, a table of capacity 0
\* is not in the list, and a table with a capacity is in the list unless its
\* thread is exiting; and the step in which the allocation fails ends the get
\* without handing out a slot and changes no capacity, no block and not the
\* list.
C14_AtFail ==
  \A t \in Threads :
    At(t, "get", FailPoint) =>
      /\ elementsCapacity[t] = Top(t).prevCapacity
      /\ DOMAIN elements[t] = 0..(Top(t).prevCapacity - 1)
      /\ Top(t).prevCapacity <= Top(t).id
      /\ Top(t).prevCapacity = 0 => t \notin SeqRange(head_)
      /\ Top(t).prevCapacity > 0 => (t \in SeqRange(head_) <=> ~Exiting(t))
C14_Step ==
  \A t \in Threads :
    (At(t, "get", "grow") /\ Depth(t)' < Depth(t)) =>
       /\ UNCHANGED <<elementsCapacity, elements, head_, stored, staleRead>>
       /\ elementsCapacity'[t] <= Top(t).id
C14_FailedGrowthChangesNothing == []C14_AtFail /\ [][C14_Step]_vars

\* C14 witness: a deleter run by a thread's exit called get on a handle that
\* the table does not cover, the allocation failed, and the table has the
\* capacity it had and is not in the list, while another thread's table
\* has capacity 0 and is not in the list either.
C14_Witness ==
  \E t, u \in Threads :
    /\ Exiting(t)
    /\ At(t, "dispose", "bad_alloc")
    /\ t \notin SeqRange(head_)
    /\ \E h \in Handles : Valid(h) /\ 0 < elementsCapacity[t]
                                   /\ elementsCapacity[t] <= value[h]
    /\ u # t /\ elementsCapacity[u] = 0 /\ u \notin SeqRange(head_)

\* The destroy frames of thread t that have captured deleters still to run.
Pending(t) ==
  {k \in DestroyFrames(t) : stack[t][k].i <= Len(stack[t][k].elems)}

\* C15 as claimed: while a destroy has a captured deleter that has not run,
\* the id it took from the handle is neither in freeIds_ nor held by a
\* handle again.
C15_Original ==
  \A t \in Threads : \A k \in Pending(t) :
    /\ stack[t][k].id \notin SeqRange(freeIds_)
    /\ \A h \in Handles : value[h] # stack[t][k].id

\* C15 amended: the step of destroy that takes the id from the handle
\* appends the id to freeIds_ and leaves the slot of that id empty in every
\* linked table, before any captured deleter runs; and no linked table holds
\* a value at an id that is in freeIds_, nor, at an id that a handle holds,
\* a value stored under another handle.
C15_Step ==
  \A h \in Handles :
    (Valid(h) /\ ~Valid(h)') =>
       /\ freeIds_' = Append(freeIds_, value[h])
       /\ \A e \in SeqRange(head_') : ~Holds(e, value[h])'
       /\ disposedAll' = disposedAll
C15_Free ==
  \A e \in SeqRange(head_) :
    /\ \A k \in 1..Len(freeIds_) : ~Holds(e, freeIds_[k])
    /\ \A h \in Handles :
         (Valid(h) /\ Holds(e, value[h])) =>
            HandleOf(elements[e][value[h]].ptr) = h
C15_IdFreedWithSlotsCleared == []C15_Free /\ [][C15_Step]_vars

\* C15 witness: a destroy has captured the values of two tables and run
\* neither deleter, and another handle already holds the id, taken from
\* freeIds_, with both tables linked and empty at that id.
C15_Witness ==
  \E t \in Threads : \E k \in Pending(t) :
    /\ stack[t][k].i = 1 /\ Len(stack[t][k].elems) = 2
    /\ \E h \in Handles : value[h] = stack[t][k].id
    /\ Len(head_) = 2
    /\ \A e \in SeqRange(head_) : ~Holds(e, stack[t][k].id)

\* The states of a table: Live is linked with a capacity above 0.
Unregistered(t) == elementsCapacity[t] = 0
Delisted(t) == Exiting(t)
Freed(t) == Exited(t)
Live(t) == elementsCapacity[t] > 0 /\ meta[t] /\ ~Exiting(t)

\* C16: the list holds the Live tables and no other; a table enters the list
\* only from capacity 0 and never while or after its thread exits, whatever
\* growth a deleter of the exit's rounds causes; and the step of destroy that
\* takes a handle's id changes no block but, at that id, those of linked Live
\* tables, and captures values of those tables only.
C16_Listed ==
  \A t \in Threads :
    /\ t \in SeqRange(head_) <=> Live(t)
    /\ (Unregistered(t) \/ Delisted(t) \/ Freed(t)) => t \notin SeqRange(head_)
C16_Step ==
  /\ \A t \in Threads :
       (t \notin SeqRange(head_) /\ t \in SeqRange(head_')) =>
          (Unregistered(t) /\ ~Exiting(t) /\ ~Exited(t))
  /\ \A h \in Handles :
       (Valid(h) /\ ~Valid(h)') =>
          /\ \A e \in Threads :
               elements'[e] # elements[e] =>
                 /\ e \in SeqRange(head_) /\ Live(e)
                 /\ \A i \in DOMAIN elements[e] :
                      i # value[h] => elements'[e][i] = elements[e][i]
          /\ \A v \in captured' \ captured :
               ThreadOf(v) \in SeqRange(head_) /\ Live(ThreadOf(v))
C16_DestroyTouchesLiveOnly == []C16_Listed /\ [][C16_Step]_vars

\* C16 witness: a deleter run by a thread's exit has called get and grown
\* the thread's table to a block of its own, the table is not in the list,
\* and a destroy that ran after the exit had unlinked the table left alone
\* the value the table held, which the exit disposed.
C16_Witness ==
  \E t \in Threads :
    /\ Exiting(t)
    /\ At(t, "get", "retry")
    /\ Top(t).reallocated
    /\ Top(t).prevCapacity > 0
    /\ elementsCapacity[t] > Top(t).prevCapacity
    /\ t \notin SeqRange(head_)
    /\ \E h \in Handles : \E v \in swept[h].present :
         /\ ThreadOf(v) = t
         /\ t \notin swept[h].live
         /\ disposedAll[v] = 0 /\ disposedThis[v] = 1

\* The values that the destroy of handle h captured.
CapturedBy(h) == {v \in swept[h].present : ThreadOf(v) \in swept[h].live}

\* C12 as claimed: of the destroy calls on a handle one sweeps, the id is in
\* freeIds_ once, and once that destroy is over each value it captured has
\* been disposed once.
C12_Original ==
  /\ Cardinality(SeqRange(freeIds_)) = Len(freeIds_)
  /\ kEntryIDInvalid \notin SeqRange(freeIds_)
  /\ \A h \in Handles :
       swept[h].done # "no" => \A v \in CapturedBy(h) : disposedAll[v] = 1

\* C17 as claimed: a value that a table held at the handle's id when destroy
\* took the lock, of a thread that has exited, has been disposed exactly once
\* when the destroy and the exit are both over: with ALL_THREADS if the
\* table was still linked, with THIS_THREAD if the exit had unlinked it.
C17_Original ==
  \A h \in Handles : \A v \in swept[h].present :
    (swept[h].done # "no" /\ Exited(ThreadOf(v))) =>
       IF ThreadOf(v) \in swept[h].live
       THEN disposedAll[v] = 1 /\ disposedThis[v] = 0
       ELSE disposedAll[v] = 0 /\ disposedThis[v] = 1

\* C17, the part that holds whatever the deleters do: such a value is never
\* disposed twice nor in both modes; the destroy that found the table linked
\* emptied the slot, so that the exit does not dispose the value; the destroy
\* that found it unlinked left the value to the exit; and the value was
\* disposed once when the loop or the rounds that own it ran to their end.
C17_AtMostOnce ==
  \A h \in Handles : \A v \in swept[h].present :
    /\ disposedAll[v] + disposedThis[v] <= 1
    /\ IF ThreadOf(v) \in swept[h].live
       THEN /\ disposedThis[v] = 0
            /\ v \notin InSomeTable
            /\ swept[h].done = "returned" => disposedAll[v] = 1
       ELSE /\ disposedAll[v] = 0
            /\ Exited(ThreadOf(v)) => disposedThis[v] = 1

\* C18: a value that a destroy has captured is in no table, before and after
\* every growth: the step that installs a grown block puts no captured value
\* into it and leaves empty every slot that a destroy has cleared; and no
\* value is disposed twice.
C18_Step ==
  \A t \in Threads :
    elementsCapacity'[t] # elementsCapacity[t] =>
      /\ \A i \in DOMAIN elements'[t] : elements'[t][i].ptr \notin captured
      /\ \A i \in DOMAIN elements[t] :
           elements[t][i].ptr = 0 => elements'[t][i] = EmptyWrapper
C18_Cleared ==
  /\ captured \cap InSomeTable = {}
  /\ \A v \in Values : disposedAll[v] + disposedThis[v] <= 1
C18_CopyUnderLock == []C18_Cleared /\ [][C18_Step]_vars

\* C18 witness: while a thread was in reserve for a table that held values,
\* or before, another thread's destroy captured a value of that table and
\* has not run its deleter yet; the grown block is installed, a block of its
\* own, and the slot is empty in it.
C18_Witness ==
  \E t, u \in Threads :
    /\ t # u
    /\ At(t, "get", "retry")
    /\ Top(t).reallocated
    /\ Top(t).prevCapacity > 0
    /\ elementsCapacity[t] > Top(t).prevCapacity
    /\ \E k \in Pending(u) :
         /\ stack[u][k].id < Top(t).prevCapacity
         /\ ~Occupied(t, stack[u][k].id)
         /\ \E v \in captured :
              /\ ThreadOf(v) = t
              /\ HandleOf(v) = stack[u][k].h
              /\ disposedAll[v] = 0

\* C19 as claimed: an onThreadExit that has begun reaches the end, where the
\* block is freed and the entry cleared.
C19_Original == \A t \in Threads : Exiting(t) ~> Exited(t)

\* C19, the part that holds whatever the deleters do: the step that frees
\* the block follows a round that disposed nothing, and the block is empty.
C19_Step ==
  \A t \in Threads :
    (meta[t] /\ ~meta'[t]) =>
       /\ At(t, "exit", "round")
       /\ ~Top(t).shouldRun
       /\ Ahead(t, 0) = {}
       /\ InTable(t) = {}
C19_FreedAfterEmptyRound == [][C19_Step]_vars

\* C20 as claimed: when a deleter's exception has ended a destroy, every
\* value that this destroy captured has been disposed all the same.
C20_Original ==
  \A h \in Handles :
    swept[h].done = "caught" =>
      Cardinality({v \in CapturedBy(h) : disposedAll[v] = 0}) = 0

====
